---- MODULE Spec2Model ----
(***************************************************************************)
(* Model of metrics.py of BusinessTelemetry: the ordered funnel matcher    *)
(* (compute_funnel), the adjacent transition extractor                     *)
(* (compute_sankey_transitions) and the cohort-date conversion calculator  *)
(* (compute_conversion_daily).                                             *)
(*                                                                         *)
(* Four specifications:                                                    *)
(*   SpecMatch   the per-session cursor loop of compute_funnel, one loop   *)
(*               iteration per step, on one session's action list;         *)
(*   Spec        the three functions applied to an event table that has    *)
(*               every column or lacks one;                                *)
(*   SpecSankey  compute_sankey_transitions on longer tables;              *)
(*   SpecRuns    the three functions called again and again, in any order, *)
(*               on one table, the caller keeping each result.             *)
(*                                                                         *)
(* Timestamps are integer ticks (all parsed, no NaT); a calendar date is   *)
(* the tick divided by TicksPerDay.  Every session of the tables drawn in  *)
(* Init has one user (the data model's stated input invariant).            *)
(***************************************************************************)
EXTENDS Integers, Sequences, FiniteSets, TLC

VARIABLES
    df,        \* the event table: a sequence of rows (records), in input order
    cols,      \* df.columns: the set of column names the table has
    steps,     \* the Step List passed by the caller
    call,      \* the function applied to df, with its keyword arguments
    result,    \* what the call returned or raised
    actions,   \* matcher: list(sgrp["action"]) of the session being matched
    pos,       \* matcher: the cursor (0-based, as in the source)
    reached,   \* matcher: the list of steps reached so far
    stepno,    \* matcher: 1-based number of the Step List entry the for loop is at
    pc,        \* matcher: "idle" | "loop" | "emit" | "done"
    held       \* the caller's tables: the result kept for each call made so far

vars == <<df, cols, steps, call, result, actions, pos, reached, stepno, pc, held>>

(***************************************************************************)
(* Bounds and configuration                                                *)
(***************************************************************************)
MaxActions == 4      \* longest session action list drawn in SpecMatch
MaxRows == 3         \* most rows of an event table drawn in Spec
MaxTs == 2           \* timestamps are 0..MaxTs
MaxSankeyRows == 4   \* most rows of an event table drawn in SpecSankey
MaxSankeyTs == 1     \* timestamps of SpecSankey are 0..MaxSankeyTs
MaxRunRows == 2      \* most rows of an event table drawn in SpecRuns
TicksPerDay == 2     \* ticks of one calendar date
NSteps == 3          \* length of the Step List used in Spec

\* The funnel order; a sub-list of the driver's list, in the driver's order.
StepList == <<"search", "product", "cart", "checkout">>

\* An action name outside every Step List.
Inert == "scroll"

\* Lexicographic rank of the action names (pandas sorts group keys).
Alpha == [cart |-> 1, checkout |-> 2, product |-> 3, scroll |-> 4, search |-> 5]

Range(s) == {s[i] : i \in 1..Len(s)}

SeqsUpTo(S, n) == UNION {[1..m -> S] : m \in 0..n}

Prefix(s, n) == SubSeq(s, 1, n)

Min(S) == CHOOSE x \in S : \A y \in S : x <= y

(***************************************************************************)
(* Python list.index(x, start): the first 0-based index >= start holding   *)
(* x; NotFound stands for the ValueError.                                  *)
(***************************************************************************)
NotFound == -1

ListIndex(l, x, start) ==
    LET hits == {i \in start..(Len(l) - 1) : l[i + 1] = x}
    IN  IF hits = {} THEN NotFound ELSE Min(hits)

(***************************************************************************)
(* The cursor loop of compute_funnel as one state machine (SpecMatch).     *)
(***************************************************************************)
NoResult == [status |-> "none"]
NoCall == [fn |-> "none"]
NoneHeld == [k \in {} |-> NoResult]
AllCols == {"userid", "sessionid", "timestamp", "action"}

InitMatch ==
    /\ df = <<>>
    /\ cols = AllCols
    /\ call = NoCall
    /\ result = NoResult
    /\ steps \in {Prefix(StepList, n) : n \in 0..Len(StepList)}
    /\ actions \in SeqsUpTo(Range(StepList) \cup {Inert}, MaxActions)
    /\ pos = 0
    /\ reached = <<>>
    /\ stepno = 1
    /\ pc = "loop"
    /\ held = NoneHeld

\* MatchStep with `reached = [step]` for `reached.append(step)`.
MatchStepReplace ==
    /\ pc = "loop"
    /\ stepno <= Len(steps)
    /\ LET i == ListIndex(actions, steps[stepno], pos)
       IN  /\ i # NotFound
           /\ reached' = <<steps[stepno]>>
           /\ pos' = i + 1
    /\ stepno' = stepno + 1
    /\ UNCHANGED <<held, df, cols, steps, call, result, actions, pc>>

\* try: i = actions.index(step, pos); reached.append(step); pos = i + 1
MatchStep ==
    /\ pc = "loop"
    /\ stepno <= Len(steps)
    /\ LET i == ListIndex(actions, steps[stepno], pos)
       IN  /\ i # NotFound
           /\ reached' = Append(reached, steps[stepno])
           /\ pos' = i + 1
    /\ stepno' = stepno + 1
    /\ UNCHANGED <<held, df, cols, steps, call, result, actions, pc>>

\* except ValueError: break  (a variant that goes on with the next step)
MatchBreakContinue ==
    /\ pc = "loop"
    /\ stepno <= Len(steps)
    /\ ListIndex(actions, steps[stepno], pos) = NotFound
    /\ stepno' = stepno + 1
    /\ UNCHANGED <<held, df, cols, steps, call, result, actions, pos, reached, pc>>

\* except ValueError: break
MatchBreak ==
    /\ pc = "loop"
    /\ stepno <= Len(steps)
    /\ ListIndex(actions, steps[stepno], pos) = NotFound
    /\ pc' = "emit"
    /\ UNCHANGED <<held, df, cols, steps, call, result, actions, pos, reached, stepno>>

\* the for loop ran out of steps
MatchExhausted ==
    /\ pc = "loop"
    /\ stepno > Len(steps)
    /\ pc' = "emit"
    /\ UNCHANGED <<held, df, cols, steps, call, result, actions, pos, reached, stepno>>

\* for step in reached: rows.append(...)
MatchEmit ==
    /\ pc = "emit"
    /\ pc' = "done"
    /\ result' = [status |-> "ok", reached |-> Range(reached)]
    /\ UNCHANGED <<held, df, cols, steps, call, actions, pos, reached, stepno>>

NextMatch == MatchStep \/ MatchBreak \/ MatchExhausted \/ MatchEmit

SpecMatch == InitMatch /\ [][NextMatch]_vars

(***************************************************************************)
(* Tables.  A row is a function from the table's columns to values; a      *)
(* result is what a call returned (status "ok", the columns and the rows)  *)
(* or the exception it raised (the status alone: nothing is returned).     *)
(***************************************************************************)
Users == {"u1", "u2"}
Sessions == {"s1", "s2", "s3"}
SessionUser == [s1 |-> "u1", s2 |-> "u1", s3 |-> "u2"]
SessionRank == [s1 |-> 1, s2 |-> 2, s3 |-> 3]
UserRank == [u1 |-> 1, u2 |-> 2]
Timestamps == 0..MaxTs
None == "None"
NaN == "NaN"          \* the missing value of a column of names

Raise(e) == [status |-> e]
Frame(columns, rows) == [status |-> "ok", columns |-> columns, rows |-> rows]

\* The rows a table with the columns cs can hold.
RowsOf(cs, stps, tss) ==
    LET full == {[userid |-> u, sessionid |-> sid, timestamp |-> ts, action |-> a] :
                    u \in Users, sid \in Sessions, ts \in tss,
                    a \in Range(stps) \cup {Inert}}
        single == {r \in full :
                    {"userid", "sessionid"} \subseteq cs => r.userid = SessionUser[r.sessionid]}
    IN  {[c \in cs |-> r[c]] : r \in single}

\* DataFrame.sort_values: a stable sort; less[i][j] says that row i sorts
\* strictly before row j.  (On one column pandas' default sort is not
\* stable; the callers below sort on one column only where rows with equal
\* keys are interchangeable.)
SortValues(s, less) ==
    LET n == Len(s)
        place(i) == 1 + Cardinality({j \in 1..n :
                        \/ less[j][i]
                        \/ (~less[i][j] /\ j < i)})
    IN  [p \in 1..n |-> s[CHOOSE i \in 1..n : place(i) = p]]

\* Series.dt.date
DateOf(ts) == ts \div TicksPerDay

BySessionThenTs(a, b) ==
    \/ SessionRank[a["sessionid"]] < SessionRank[b["sessionid"]]
    \/ /\ a["sessionid"] = b["sessionid"]
       /\ a["timestamp"] < b["timestamp"]

\* sort_values([session_col, ts_col])
SortBySessionThenTs(t) ==
    SortValues(t, [i \in 1..Len(t) |-> [j \in 1..Len(t) |-> BySessionThenTs(t[i], t[j])]])

\* The group keys S of a groupby in sorted order, rank[x] being the place of
\* x in the order of its type.
Sorted(S, rank) ==
    LET n == Cardinality(S)
    IN  [p \in 1..n |-> CHOOSE x \in S : Cardinality({y \in S : rank[y] < rank[x]}) = p - 1]

RECURSIVE Flatten(_)
Flatten(ss) == IF ss = <<>> THEN <<>> ELSE Head(ss) \o Flatten(Tail(ss))

(***************************************************************************)
(* compute_funnel                                                          *)
(***************************************************************************)
\* MatchFrom going on with the next step where the source breaks.
RECURSIVE MatchFromSkip(_, _, _, _, _)
MatchFromSkip(acts, stps, k, p, got) ==
    IF k > Len(stps) THEN got
    ELSE LET i == ListIndex(acts, stps[k], p)
         IN  IF i = NotFound THEN MatchFromSkip(acts, stps, k + 1, p, got)
             ELSE MatchFromSkip(acts, stps, k + 1, i + 1, Append(got, stps[k]))

\* The cursor loop on one session's action list: the list `reached`.
RECURSIVE MatchFrom(_, _, _, _, _)
MatchFrom(acts, stps, k, p, got) ==
    IF k > Len(stps) THEN got
    ELSE LET i == ListIndex(acts, stps[k], p)
         IN  IF i = NotFound THEN got
             ELSE MatchFrom(acts, stps, k + 1, i + 1, Append(got, stps[k]))

SessionReached(acts, stps) == MatchFrom(acts, stps, 1, 0, <<>>)

\* steps.index(s) if s in steps else -1
StepNumber(stps, s) ==
    IF s \in Range(stps) THEN Min({i \in 1..Len(stps) : stps[i] = s}) - 1 ELSE -1

FunnelColumns == <<"step", "sessions_reached", "unique_users_reached">>

\* rows: one {"sessionid", "userid", "step"} per session and reached step
FunnelRows(df_local, cs, stps) ==
    LET sids == Sorted({df_local[i]["sessionid"] : i \in 1..Len(df_local)},
                       SessionRank)
        sgrp(sid) == SelectSeq(df_local, LAMBDA r : r["sessionid"] = sid)
        acts(sid) == [i \in 1..Len(sgrp(sid)) |-> sgrp(sid)[i]["action"]]
        user(sid) == IF "userid" \in cs THEN sgrp(sid)[1]["userid"] ELSE None
        got(sid) == SessionReached(acts(sid), stps)
    IN  Flatten([n \in 1..Len(sids) |->
            [j \in 1..Len(got(sids[n])) |->
                [sessionid |-> sids[n], userid |-> user(sids[n]), step |-> got(sids[n])[j]]]])

\* FunnelAgg without the final sort by step_number: the rows stay in the
\* order of the group keys.
FunnelAggKeyOrder(rows, stps) ==
    LET rs == Range(rows)
        keys == Sorted({r.step : r \in rs}, Alpha)
    IN  [n \in 1..Len(keys) |->
           [step |-> keys[n],
            sessions_reached |->
                Cardinality({r.sessionid : r \in {q \in rs : q.step = keys[n]}}),
            unique_users_reached |->
                Cardinality({r.userid : r \in {q \in rs : q.step = keys[n]}} \ {None})]]

\* groupby("step").agg(nunique, nunique), then the sort by step_number
FunnelAgg(rows, stps) ==
    LET rs == Range(rows)
        keys == Sorted({r.step : r \in rs}, Alpha)
        agg == [n \in 1..Len(keys) |->
                  [step |-> keys[n],
                   sessions_reached |->
                       Cardinality({r.sessionid : r \in {q \in rs : q.step = keys[n]}}),
                   unique_users_reached |->
                       Cardinality({r.userid : r \in {q \in rs : q.step = keys[n]}} \ {None})]]
    IN  SortValues(agg, [i \in 1..Len(agg) |-> [j \in 1..Len(agg) |->
            StepNumber(stps, agg[i].step) < StepNumber(stps, agg[j].step)]])

\* compute_funnel without the `if not rows` return: the groupby("step") of
\* a frame that has no column raises KeyError.
compute_funnel_unguarded(table, cs, stps) ==
    IF "sessionid" \notin cs THEN Raise("ValueError")
    ELSE IF "timestamp" \notin cs THEN Raise("KeyError")
    ELSE LET df_local == SortBySessionThenTs(table)
         IN  IF df_local # <<>> /\ "action" \notin cs THEN Raise("KeyError")
             ELSE LET rows == FunnelRows(df_local, cs, stps)
                  IN  IF rows = <<>> THEN Raise("KeyError")
                      ELSE Frame(FunnelColumns, FunnelAgg(rows, stps))

compute_funnel(table, cs, stps) ==
    IF "sessionid" \notin cs THEN Raise("ValueError")
    ELSE IF "timestamp" \notin cs THEN Raise("KeyError")
    ELSE LET df_local == SortBySessionThenTs(table)
         IN  IF df_local # <<>> /\ "action" \notin cs THEN Raise("KeyError")
             ELSE LET rows == FunnelRows(df_local, cs, stps)
                  IN  IF rows = <<>> THEN Frame(FunnelColumns, <<>>)
                      ELSE Frame(FunnelColumns, FunnelAgg(rows, stps))

(***************************************************************************)
(* compute_sankey_transitions                                              *)
(***************************************************************************)
\* step_map = {action: i for i, action in enumerate(steps)}
StepMap(stps) == [s \in Range(stps) |-> StepNumber(stps, s)]

\* The missing value (NaN) of a column of ranks.
NoRank == -1

\* Series.map(step_map): the rank, or NaN for a name the map lacks (and for NaN)
MapStep(step_map, a) == IF a \in DOMAIN step_map THEN step_map[a] ELSE NoRank

\* RankGe with a strict comparison.
RankGt(x, y) == x # NoRank /\ y # NoRank /\ x > y

\* next_step >= current_step on floats: False when either side is NaN
RankGe(x, y) == x # NoRank /\ y # NoRank /\ x >= y

\* NextAction with the shift taken over the whole table, not per session.
NextActionUngrouped(df_local, i) ==
    IF i < Len(df_local) THEN df_local[i + 1]["action"] ELSE NaN

\* df_local.groupby(session_col)["action"].shift(-1): the action of the next
\* row of the sorted table when it is of the same session, else NaN
NextAction(df_local, i) ==
    IF i < Len(df_local) /\ df_local[i + 1]["sessionid"] = df_local[i]["sessionid"]
    THEN df_local[i + 1]["action"]
    ELSE NaN

SankeyColumns == <<"action", "next_action", "users">>

\* The rows left after the notna filter and the step-increase filter, each
\* with its next_action, current_step and next_step columns.
SankeyPairs(df_local, step_map, require_step_increase) ==
    LET ext == [i \in 1..Len(df_local) |->
                  [row |-> df_local[i],
                   action |-> df_local[i]["action"],
                   next_action |-> NextAction(df_local, i),
                   current_step |-> MapStep(step_map, df_local[i]["action"]),
                   next_step |-> MapStep(step_map, NextAction(df_local, i))]]
        mapped == SelectSeq(ext, LAMBDA e : e.next_step # NoRank /\ e.current_step # NoRank)
    IN  IF require_step_increase
        THEN SelectSeq(mapped, LAMBDA e : RankGe(e.next_step, e.current_step))
        ELSE mapped

ByActionThenNext(a, b) ==
    \/ Alpha[a.action] < Alpha[b.action]
    \/ /\ a.action = b.action
       /\ Alpha[a.next_action] < Alpha[b.next_action]

\* SankeyAgg counting the rows of each group (count() for nunique()).
SankeyAggCount(pairs) ==
    LET ps == Range(pairs)
        keys == {<<e.action, e.next_action>> : e \in ps}
        ordered == Sorted(keys, [k \in keys |->
                       Alpha[k[1]] * (Cardinality(DOMAIN Alpha) + 1) + Alpha[k[2]]])
    IN  [n \in 1..Len(ordered) |->
           [action |-> ordered[n][1],
            next_action |-> ordered[n][2],
            users |-> Len(SelectSeq(pairs,
                          LAMBDA q : <<q.action, q.next_action>> = ordered[n]))]]

\* groupby(["action", "next_action"])["userid"].nunique(), sorted
SankeyAgg(pairs) ==
    LET ps == Range(pairs)
        keys == {<<e.action, e.next_action>> : e \in ps}
        ordered == Sorted(keys, [k \in keys |->
                       Alpha[k[1]] * (Cardinality(DOMAIN Alpha) + 1) + Alpha[k[2]]])
        sankey == [n \in 1..Len(ordered) |->
                     [action |-> ordered[n][1],
                      next_action |-> ordered[n][2],
                      users |-> Cardinality({e.row["userid"] :
                                   e \in {q \in ps : <<q.action, q.next_action>> = ordered[n]}})]]
    IN  SortValues(sankey, [i \in 1..Len(sankey) |-> [j \in 1..Len(sankey) |->
            ByActionThenNext(sankey[i], sankey[j])]])

compute_sankey_transitions(table, cs, step_map, require_step_increase) ==
    IF "sessionid" \notin cs THEN Raise("ValueError")
    ELSE IF "timestamp" \notin cs THEN Raise("KeyError")
    ELSE IF "action" \notin cs THEN Raise("KeyError")
    ELSE LET df_local == SortBySessionThenTs(table)
             pairs == SankeyPairs(df_local, step_map, require_step_increase)
         IN  IF "userid" \notin cs THEN Raise("KeyError")
             ELSE Frame(SankeyColumns, SankeyAgg(pairs))

(***************************************************************************)
(* compute_conversion_daily                                                *)
(***************************************************************************)
\* Float division of two integer columns: x / 0 is NaN when x is 0 and inf
\* otherwise; no exception is raised.
Divide(x, y) ==
    IF y = 0 THEN (IF x = 0 THEN [float |-> "nan"] ELSE [float |-> "inf"])
    ELSE [float |-> "number", num |-> x, den |-> y]

ByTs(a, b) == a["timestamp"] < b["timestamp"]

\* sort_values(ts_col)
SortByTs(t) ==
    SortValues(t, [i \in 1..Len(t) |-> [j \in 1..Len(t) |-> ByTs(t[i], t[j])]])

\* Cohort taking each user's last row of df_first (last() for first()).
CohortLast(df_first) ==
    LET us == {df_first[i]["userid"] : i \in 1..Len(df_first)}
        last(u) == df_first[CHOOSE i \in 1..Len(df_first) :
                       /\ df_first[i]["userid"] = u
                       /\ \A j \in (i + 1)..Len(df_first) : df_first[j]["userid"] # u]
    IN  [u \in us |-> [first_ts |-> last(u)["timestamp"],
                       cohort_date |-> DateOf(last(u)["timestamp"])]]

\* first_ts.merge(first_day): per user of df_first, the timestamp and the
\* date of the user's first row in df_first
Cohort(df_first) ==
    LET us == {df_first[i]["userid"] : i \in 1..Len(df_first)}
        first(u) == df_first[Min({i \in 1..Len(df_first) : df_first[i]["userid"] = u})]
    IN  [u \in us |-> [first_ts |-> first(u)["timestamp"],
                       cohort_date |-> DateOf(first(u)["timestamp"])]]

\* CohortJoin without the filter timestamp >= first_ts.
CohortJoinUnfiltered(df_f, cohort) ==
    [i \in 1..Len(SelectSeq(df_f, LAMBDA r : r["userid"] \in DOMAIN cohort)) |->
        LET r == SelectSeq(df_f, LAMBDA q : q["userid"] \in DOMAIN cohort)[i]
        IN  [row |-> r,
             first_ts |-> cohort[r["userid"]].first_ts,
             cohort_date |-> cohort[r["userid"]].cohort_date]]

\* df_f.merge(cohort, on="userid"), then the rows with timestamp >= first_ts
CohortJoin(df_f, cohort) ==
    LET df_join == [i \in 1..Len(SelectSeq(df_f, LAMBDA r : r["userid"] \in DOMAIN cohort)) |->
                      LET r == SelectSeq(df_f, LAMBDA q : q["userid"] \in DOMAIN cohort)[i]
                      IN  [row |-> r,
                           first_ts |-> cohort[r["userid"]].first_ts,
                           cohort_date |-> cohort[r["userid"]].cohort_date]]
    IN  SelectSeq(df_join, LAMBDA e : e.row["timestamp"] >= e.first_ts)

\* ConversionCounts grouped by the date of the event (groupby(["date",
\* "action"])) for the cohort_date of its user.
ConversionCountsByEventDate(df_join, stps) ==
    LET es == Range(df_join)
        dates == Sorted({DateOf(e.row["timestamp"]) : e \in es},
                        [d \in {DateOf(e.row["timestamp"]) : e \in es} |-> d])
        present == {e.row["action"] : e \in es}
        cell(d, s) ==
            IF s \in present
            THEN Cardinality({e.row["userid"] :
                     e \in {q \in es : DateOf(q.row["timestamp"]) = d /\ q.row["action"] = s}})
            ELSE 0
    IN  [n \in 1..Len(dates) |->
            [cohort_date |-> dates[n], count |-> [s \in Range(stps) |-> cell(dates[n], s)]]]

\* groupby(["cohort_date", "action"])["userid"].nunique().unstack(fill_value=0),
\* the missing step columns set to 0, the columns `steps`, reset_index
ConversionCounts(df_join, stps) ==
    LET es == Range(df_join)
        dates == Sorted({e.cohort_date : e \in es}, [d \in {e.cohort_date : e \in es} |-> d])
        present == {e.row["action"] : e \in es}
        cell(d, s) ==
            IF s \in present
            THEN Cardinality({e.row["userid"] :
                     e \in {q \in es : q.cohort_date = d /\ q.row["action"] = s}})
            ELSE 0
    IN  [n \in 1..Len(dates) |->
            [cohort_date |-> dates[n], count |-> [s \in Range(stps) |-> cell(dates[n], s)]]]

RatioName(a, b) == "cr_" \o a \o "_to_" \o b

ConversionColumns(stps) ==
    <<"cohort_date">> \o stps
        \o [i \in 1..(Len(stps) - 1) |-> RatioName(stps[i], stps[i + 1])]
        \o <<"cr_full">>

\* res[f"cr_{a}_to_{b}"] = res[b] / res[a];  res["cr_full"] = res[steps[-1]] / res[first_step]
ConversionRatios(res, stps) ==
    [n \in 1..Len(res) |->
        [cohort_date |-> res[n].cohort_date,
         count |-> res[n].count,
         cr |-> [i \in 1..(Len(stps) - 1) |->
                   Divide(res[n].count[stps[i + 1]], res[n].count[stps[i]])],
         cr_full |-> Divide(res[n].count[stps[Len(stps)]], res[n].count[stps[1]])]]

compute_conversion_daily(table, cs, stps) ==
    IF "timestamp" \notin cs THEN Raise("KeyError")
    ELSE IF "action" \notin cs THEN Raise("KeyError")
    ELSE LET df_f == SelectSeq(table, LAMBDA r : r["action"] \in Range(stps))
             first_step == stps[1]
             df_first == SortByTs(SelectSeq(df_f, LAMBDA r : r["action"] = first_step))
         IN  IF "userid" \notin cs THEN Raise("KeyError")
             ELSE LET cohort == Cohort(df_first)
                      df_join == CohortJoin(df_f, cohort)
                      res == ConversionCounts(df_join, stps)
                  IN  Frame(ConversionColumns(stps), ConversionRatios(res, stps))

(***************************************************************************)
(* The functions applied to an event table (Spec).                         *)
(***************************************************************************)
Init ==
    /\ steps = Prefix(StepList, NSteps)
    /\ cols \in {AllCols} \cup {AllCols \ {c} : c \in AllCols}
    /\ df \in SeqsUpTo(RowsOf(cols, steps, Timestamps), MaxRows)
    /\ call = NoCall
    /\ result = NoResult
    /\ actions = <<>>
    /\ pos = 0
    /\ reached = <<>>
    /\ stepno = 1
    /\ pc = "idle"
    /\ held = NoneHeld

ComputeFunnel ==
    /\ call = NoCall
    /\ pc = "idle"
    /\ call' = [fn |-> "compute_funnel"]
    /\ result' = compute_funnel(df, cols, steps)
    /\ UNCHANGED <<held, df, cols, steps, actions, pos, reached, stepno, pc>>

ComputeSankeyTransitions ==
    /\ call = NoCall
    /\ pc = "idle"
    /\ \E require_step_increase \in BOOLEAN :
          /\ call' = [fn |-> "compute_sankey_transitions",
                      require_step_increase |-> require_step_increase]
          /\ result' = compute_sankey_transitions(df, cols, StepMap(steps),
                                                  require_step_increase)
    /\ UNCHANGED <<held, df, cols, steps, actions, pos, reached, stepno, pc>>

ComputeConversionDaily ==
    /\ call = NoCall
    /\ pc = "idle"
    /\ call' = [fn |-> "compute_conversion_daily"]
    /\ result' = compute_conversion_daily(df, cols, steps)
    /\ UNCHANGED <<held, df, cols, steps, actions, pos, reached, stepno, pc>>

Next == ComputeFunnel \/ ComputeSankeyTransitions \/ ComputeConversionDaily

Spec == Init /\ [][Next]_vars

(***************************************************************************)
(* compute_sankey_transitions alone, on longer tables with every column    *)
(* (SpecSankey).                                                           *)
(***************************************************************************)
InitSankey ==
    /\ steps = Prefix(StepList, NSteps)
    /\ cols = AllCols
    /\ df \in SeqsUpTo(RowsOf(cols, steps, 0..MaxSankeyTs), MaxSankeyRows)
    /\ call = NoCall
    /\ result = NoResult
    /\ actions = <<>>
    /\ pos = 0
    /\ reached = <<>>
    /\ stepno = 1
    /\ pc = "idle"
    /\ held = NoneHeld

NextSankey == ComputeSankeyTransitions

SpecSankey == InitSankey /\ [][NextSankey]_vars

(***************************************************************************)
(* The functions called repeatedly, in any order, on one table (SpecRuns). *)
(* Each function starts with df_local = df.copy() and works on the copy,   *)
(* so the caller's table keeps its rows and its columns.                   *)
(***************************************************************************)
\* The columns of the caller's table after fn ran without the copy: the
\* conversion calculator adds its date column (funnel and sankey rebind
\* df_local to the sorted frame before they add a column).
InputColumnsAfterInPlace(fn, cs) ==
    IF fn = "compute_conversion_daily" /\ "timestamp" \in cs
    THEN cs \cup {"date"}
    ELSE cs

\* The columns of the caller's table after fn ran: df.copy() leaves them.
InputColumnsAfter(fn, cs) == cs

\* The name under which the caller keeps the result of a call.
CallKey(c) ==
    IF c.fn = "compute_sankey_transitions" /\ ~c.require_step_increase
    THEN "compute_sankey_transitions(require_step_increase=False)"
    ELSE c.fn

Hold(h, k, out) == [x \in DOMAIN h \cup {k} |-> IF x = k THEN out ELSE h[x]]

InitRuns ==
    /\ steps = Prefix(StepList, NSteps)
    /\ cols \in {AllCols} \cup {AllCols \ {c} : c \in AllCols}
    /\ df \in SeqsUpTo(RowsOf(cols, steps, Timestamps), MaxRunRows)
    /\ call = NoCall
    /\ result = NoResult
    /\ actions = <<>>
    /\ pos = 0
    /\ reached = <<>>
    /\ stepno = 1
    /\ pc = "idle"
    /\ held = NoneHeld

RunFunnel ==
    /\ pc = "idle"
    /\ call' = [fn |-> "compute_funnel"]
    /\ result' = compute_funnel(df, cols, steps)
    /\ held' = Hold(held, CallKey(call'), result')
    /\ df' = df
    /\ cols' = InputColumnsAfter("compute_funnel", cols)
    /\ UNCHANGED <<steps, actions, pos, reached, stepno, pc>>

RunSankeyTransitions ==
    /\ pc = "idle"
    /\ \E require_step_increase \in BOOLEAN :
          /\ call' = [fn |-> "compute_sankey_transitions",
                      require_step_increase |-> require_step_increase]
          /\ result' = compute_sankey_transitions(df, cols, StepMap(steps),
                                                  require_step_increase)
    /\ held' = Hold(held, CallKey(call'), result')
    /\ df' = df
    /\ cols' = InputColumnsAfter("compute_sankey_transitions", cols)
    /\ UNCHANGED <<steps, actions, pos, reached, stepno, pc>>

RunConversionDaily ==
    /\ pc = "idle"
    /\ call' = [fn |-> "compute_conversion_daily"]
    /\ result' = compute_conversion_daily(df, cols, steps)
    /\ held' = Hold(held, CallKey(call'), result')
    /\ df' = df
    /\ cols' = InputColumnsAfter("compute_conversion_daily", cols)
    /\ UNCHANGED <<steps, actions, pos, reached, stepno, pc>>

NextRuns == RunFunnel \/ RunSankeyTransitions \/ RunConversionDaily

SpecRuns == InitRuns /\ [][NextRuns]_vars

(***************************************************************************)
(* Properties.  The helpers below describe the event table directly, row   *)
(* by row, without the sorting and grouping of the functions.              *)
(***************************************************************************)
Rows == 1..Len(df)

\* Row i comes before row j in timestamp order, ties by input order.
Before(i, j) ==
    \/ df[i]["timestamp"] < df[j]["timestamp"]
    \/ df[i]["timestamp"] = df[j]["timestamp"] /\ i < j

SameSession(i, j) == df[i]["sessionid"] = df[j]["sessionid"]

\* Row j is the event right after row i in the session of row i.
Adjacent(i, j) ==
    /\ i # j
    /\ SameSession(i, j)
    /\ Before(i, j)
    /\ ~\E k \in Rows \ {i, j} : SameSession(i, k) /\ Before(i, k) /\ Before(k, j)

Ranked(a) == a \in Range(steps)

Rank(a) == CHOOSE n \in 0..(Len(steps) - 1) : steps[n + 1] = a

\* C1 -- the reached set of a session is what one forward cursor gives: the
\* steps 1..m of the Step List, each taken at its first occurrence after
\* the occurrence taken for the step before, m being the first step that has
\* no occurrence after the cursor (or the whole list); and the actions
\* [search, cart, product, checkout] against [search, product, cart,
\* checkout] reach exactly {search, product}.
CursorTakes(m, f) ==
    \A j \in 1..m :
        LET prev == IF j = 1 THEN 0 ELSE f[j - 1]
        IN  /\ f[j] > prev
            /\ actions[f[j]] = steps[j]
            /\ \A i \in (prev + 1)..(f[j] - 1) : actions[i] # steps[j]

CursorStops(m, f) ==
    \/ m = Len(steps)
    \/ \A i \in ((IF m = 0 THEN 0 ELSE f[m]) + 1)..Len(actions) : actions[i] # steps[m + 1]

C1_ForwardCursor ==
    pc = "done" =>
        /\ \E m \in 0..Len(steps) : \E f \in [1..m -> 1..Len(actions)] :
              /\ CursorTakes(m, f)
              /\ CursorStops(m, f)
              /\ result.reached = {steps[j] : j \in 1..m}
        /\ (actions = <<"search", "cart", "product", "checkout">>
              /\ steps = <<"search", "product", "cart", "checkout">>)
             => result.reached = {"search", "product"}

C1_Witness ==
    /\ pc = "done"
    /\ actions = <<"search", "cart", "product", "checkout">>
    /\ steps = <<"search", "product", "cart", "checkout">>
    /\ result.reached = {"search", "product"}

\* C2 -- the funnel table has one row per step that some session reached,
\* in Step List order, with the number of distinct sessions that reached the
\* step and the number of distinct users of those sessions.
SessionIds == {df[i]["sessionid"] : i \in Rows}

\* The first k steps occur in this order in the session (as a subsequence).
ReachesStep(sid, k) ==
    LET own == {i \in Rows : df[i]["sessionid"] = sid}
    IN  \E f \in [1..k -> own] :
            \A j \in 1..k :
                /\ df[f[j]]["action"] = steps[j]
                /\ j > 1 => Before(f[j - 1], f[j])

SessionsReaching(k) == {sid \in SessionIds : ReachesStep(sid, k)}

UsersOf(sids) ==
    IF "userid" \in cols
    THEN {df[i]["userid"] : i \in {r \in Rows : df[r]["sessionid"] \in sids}}
    ELSE {}

FunnelReturned == call.fn = "compute_funnel" /\ result.status = "ok"

C2_FunnelTable ==
    (FunnelReturned /\ "action" \in cols) =>
        LET rows == result.rows
            listed == {k \in 1..Len(steps) : SessionsReaching(k) # {}}
        IN  /\ Len(rows) = Cardinality(listed)
            /\ {rows[n].step : n \in 1..Len(rows)} = {steps[k] : k \in listed}
            /\ \A n \in 1..Len(rows), o \in 1..Len(rows) :
                   n < o => Rank(rows[n].step) < Rank(rows[o].step)
            /\ \A n \in 1..Len(rows) :
                   LET sids == SessionsReaching(Rank(rows[n].step) + 1)
                   IN  /\ rows[n].sessions_reached = Cardinality(sids)
                       /\ rows[n].unique_users_reached = Cardinality(UsersOf(sids))

C2_Witness ==
    /\ FunnelReturned
    /\ Len(result.rows) >= 2
    /\ result.rows[1].sessions_reached = 2
    /\ result.rows[1].unique_users_reached = 1
    /\ result.rows[2].sessions_reached = 1

\* C3 -- with require_step_increase every row of the transition table has
\* rank(next_action) >= rank(action), and every adjacent in-session pair of
\* ranked actions with rank(next_action) >= rank(action) is a row; one
\* session [b, a, c] of the Step List [a, b, c] keeps (a, c) and drops (b, a).
SankeyReturned == call.fn = "compute_sankey_transitions" /\ result.status = "ok"

HasRow(x, y) ==
    \E n \in 1..Len(result.rows) :
        result.rows[n].action = x /\ result.rows[n].next_action = y

OneSession(acts) ==
    /\ Len(df) = Len(acts)
    /\ \A i \in Rows : SameSession(1, i) /\ df[i]["action"] = acts[i]
    /\ \A i \in Rows : i > 1 => Before(i - 1, i)

C3_ForwardFilter ==
    (SankeyReturned /\ call.require_step_increase) =>
        /\ \A n \in 1..Len(result.rows) :
               /\ Ranked(result.rows[n].action)
               /\ Ranked(result.rows[n].next_action)
               /\ Rank(result.rows[n].next_action) >= Rank(result.rows[n].action)
        /\ \A i \in Rows, j \in Rows :
               (/\ Adjacent(i, j)
                /\ Ranked(df[i]["action"])
                /\ Ranked(df[j]["action"])
                /\ Rank(df[j]["action"]) >= Rank(df[i]["action"]))
               => HasRow(df[i]["action"], df[j]["action"])
        /\ OneSession(<<steps[2], steps[1], steps[3]>>)
               => HasRow(steps[1], steps[3]) /\ ~HasRow(steps[2], steps[1])

C3_Witness ==
    /\ SankeyReturned
    /\ call.require_step_increase
    /\ OneSession(<<steps[2], steps[1], steps[3]>>)
    /\ Len(result.rows) = 1
    /\ HasRow(steps[1], steps[3])

\* C4 -- every row (x, y) of the transition table, with or without the
\* step-increase filter, comes from two events of one session, y right
\* after x in timestamp order, both in the Step Rank Map; so the session
\* [a, x, b] with x outside the Step List gives no row.
C4_AdjacentOnly ==
    SankeyReturned =>
        /\ \A n \in 1..Len(result.rows) :
               \E i \in Rows, j \in Rows :
                   /\ Adjacent(i, j)
                   /\ df[i]["action"] = result.rows[n].action
                   /\ df[j]["action"] = result.rows[n].next_action
                   /\ Ranked(df[i]["action"])
                   /\ Ranked(df[j]["action"])
        /\ OneSession(<<steps[1], Inert, steps[2]>>) => result.rows = <<>>

C4_Witness ==
    /\ SankeyReturned
    /\ ~call.require_step_increase
    /\ OneSession(<<steps[1], Inert, steps[2]>>)
    /\ result.rows = <<>>

\* C5 -- the users column of a row (x, y) is the number of distinct users
\* having an event x with the event y right after it in the same session,
\* however many times and in however many sessions.
Exhibits(u, x, y) ==
    \E i \in Rows, j \in Rows :
        /\ Adjacent(i, j)
        /\ df[i]["userid"] = u
        /\ df[i]["action"] = x
        /\ df[j]["action"] = y

C5_DistinctUsers ==
    SankeyReturned =>
        \A n \in 1..Len(result.rows) :
            result.rows[n].users =
                Cardinality({u \in Users :
                    Exhibits(u, result.rows[n].action, result.rows[n].next_action)})

\* one user, the same transition in two sessions, counted once
C5_Witness ==
    /\ SankeyReturned
    /\ Len(result.rows) = 1
    /\ result.rows[1].users = 1
    /\ \E i \in Rows, j \in Rows, k \in Rows, l \in Rows :
           /\ Adjacent(i, j)
           /\ Adjacent(k, l)
           /\ ~SameSession(i, k)
           /\ df[i]["action"] = df[k]["action"]
           /\ df[j]["action"] = df[l]["action"]
           /\ df[i]["userid"] = df[k]["userid"]

(***************************************************************************)
(* compute_conversion_daily, described user by user.                       *)
(***************************************************************************)
ConversionReturned == call.fn = "compute_conversion_daily" /\ result.status = "ok"

FirstStepRows(u) == {i \in Rows : df[i]["userid"] = u /\ df[i]["action"] = steps[1]}

Cohorted == {u \in Users : FirstStepRows(u) # {}}

FirstTs(u) == Min({df[i]["timestamp"] : i \in FirstStepRows(u)})

CohortDateOf(u) == FirstTs(u) \div TicksPerDay

\* u has an event s at or after u's first event of the first step
StepAfterEntry(u, s) ==
    \E i \in Rows :
        /\ df[i]["userid"] = u
        /\ df[i]["action"] = s
        /\ df[i]["timestamp"] >= FirstTs(u)

CohortUsers(d, s) == {u \in Cohorted : CohortDateOf(u) = d /\ StepAfterEntry(u, s)}

\* C6 -- no count of the daily conversion table includes a user for an
\* event that precedes the user's first event of the first step: each count
\* of a step is at most the number of users of that cohort date who have the
\* step at or after their first_ts.
C6_PreEntryExcluded ==
    ConversionReturned =>
        \A n \in 1..Len(result.rows) : \A s \in Range(steps) :
            result.rows[n].count[s]
                <= Cardinality(CohortUsers(result.rows[n].cohort_date, s))

\* a stray later-step event on the day before the user's first search
C6_Witness ==
    /\ ConversionReturned
    /\ cols = AllCols
    /\ Len(result.rows) = 1
    /\ \E u \in Cohorted : \E i \in Rows :
           /\ df[i]["userid"] = u
           /\ df[i]["action"] = steps[2]
           /\ df[i]["timestamp"] \div TicksPerDay < CohortDateOf(u)
           /\ result.rows[1].cohort_date = CohortDateOf(u)
           /\ result.rows[1].count[steps[2]] = 0

\* C7 -- the daily conversion table has one row per date that is the date
\* of some user's earliest first-step event, and the count of a step on a
\* row is the number of users anchored to that date who have the step at or
\* after their first_ts; a user without a first-step event is in no count.
C7_CohortMembership ==
    ConversionReturned =>
        /\ {result.rows[n].cohort_date : n \in 1..Len(result.rows)}
               = {CohortDateOf(u) : u \in Cohorted}
        /\ Len(result.rows) = Cardinality({CohortDateOf(u) : u \in Cohorted})
        /\ \A n \in 1..Len(result.rows) : \A s \in Range(steps) :
               result.rows[n].count[s]
                   = Cardinality(CohortUsers(result.rows[n].cohort_date, s))

\* one user anchored to a date with a later step on another date, and one
\* user with funnel steps but no first step
C7_Witness ==
    /\ ConversionReturned
    /\ cols = AllCols
    /\ Len(result.rows) = 1
    /\ result.rows[1].count[steps[1]] = 1
    /\ result.rows[1].count[steps[2]] = 1
    /\ \E u \in Cohorted : \E i \in Rows :
           /\ df[i]["userid"] = u
           /\ df[i]["action"] = steps[2]
           /\ df[i]["timestamp"] \div TicksPerDay > CohortDateOf(u)
    /\ \E u \in Users \ Cohorted : \E i \in Rows :
           df[i]["userid"] = u /\ df[i]["action"] = steps[2]

\* C8 -- every ratio of the daily conversion table whose denominator count
\* is 0 is NaN, whatever its numerator.
C8_ZeroDenominatorIsNaN ==
    ConversionReturned =>
        \A n \in 1..Len(result.rows) :
            /\ \A i \in 1..(Len(steps) - 1) :
                   result.rows[n].count[steps[i]] = 0
                       => result.rows[n].cr[i] = [float |-> "nan"]
            /\ result.rows[n].count[steps[1]] = 0
                   => result.rows[n].cr_full = [float |-> "nan"]

\* C9 -- on a table with every column and no row, or no session reaching a
\* step, or no cohorted user, each function returns its full column set
\* and no row, and does not raise.
ExpectedConversionColumns ==
    [c \in 1..(2 * Len(steps) + 1) |->
        IF c = 1 THEN "cohort_date"
        ELSE IF c <= Len(steps) + 1 THEN steps[c - 1]
        ELSE IF c <= 2 * Len(steps)
             THEN "cr_" \o steps[c - Len(steps) - 1] \o "_to_" \o steps[c - Len(steps)]
        ELSE "cr_full"]

C9_EmptyInputStable ==
    cols = AllCols =>
        /\ (call.fn = "compute_funnel" /\ \A sid \in SessionIds : ~ReachesStep(sid, 1))
               => /\ result.status = "ok"
                  /\ result.columns = <<"step", "sessions_reached", "unique_users_reached">>
                  /\ result.rows = <<>>
        /\ (call.fn = "compute_sankey_transitions" /\ df = <<>>)
               => /\ result.status = "ok"
                  /\ result.columns = <<"action", "next_action", "users">>
                  /\ result.rows = <<>>
        /\ (call.fn = "compute_conversion_daily" /\ Cohorted = {})
               => /\ result.status = "ok"
                  /\ result.columns = ExpectedConversionColumns
                  /\ result.rows = <<>>

C9_Witness ==
    /\ cols = AllCols
    /\ df = <<>>
    /\ call.fn = "compute_conversion_daily"
    /\ result.status = "ok"
    /\ result.rows = <<>>
    /\ Len(result.columns) = 2 * Len(steps) + 1

\* C10 -- the funnel and the transition computation fail, returning
\* nothing, whenever the table lacks the session-id, the action or the
\* timestamp column.
C10_MissingColumnFails ==
    (/\ call.fn \in {"compute_funnel", "compute_sankey_transitions"}
     /\ {"sessionid", "action", "timestamp"} \ cols # {})
        => result.status \notin {"ok", "none"}

\* C11 -- the reached set of the Step List prefix of length k is a subset
\* of the reached set of the prefix of length k + 1, and during one run of
\* the matcher the list of reached steps only grows: every step of the run
\* keeps what was recorded and adds at most one step at the end.
PrefixReached(k) == Range(SessionReached(actions, Prefix(StepList, k)))

C11_ReachedGrows ==
    /\ [](pc = "done" =>
            /\ result.reached = PrefixReached(Len(steps))
            /\ Len(steps) < Len(StepList)
                   => result.reached \subseteq PrefixReached(Len(steps) + 1)
            /\ Len(steps) > 0
                   => PrefixReached(Len(steps) - 1) \subseteq result.reached)
    /\ [][/\ Len(reached') >= Len(reached)
          /\ SubSeq(reached', 1, Len(reached)) = reached]_vars

\* a run on the prefix of length 2 that reached both steps, where the
\* prefix of length 3 reaches one more
C11_Witness ==
    /\ pc = "done"
    /\ Len(steps) = 2
    /\ result.reached = {steps[1], steps[2]}
    /\ Cardinality(PrefixReached(3)) = 3

EmittedFor(sid) ==
    LET rows == FunnelRows(SortBySessionThenTs(df), cols, steps)
    IN  {rows[n].step : n \in {o \in 1..Len(rows) : rows[o].sessionid = sid}}

LongestPrefix(sid) ==
    CHOOSE m \in 0..Len(steps) :
        /\ \A k \in 1..m : ReachesStep(sid, k)
        /\ m < Len(steps) => ~ReachesStep(sid, m + 1)

C13_ReachedIsPrefix ==
    (FunnelReturned /\ "action" \in cols) =>
        /\ \A sid \in SessionIds :
               /\ EmittedFor(sid) = {steps[k] : k \in 1..LongestPrefix(sid)}
               /\ \A k \in 1..Len(steps) :
                      ReachesStep(sid, k) => k <= LongestPrefix(sid)
        /\ \A n \in 1..Len(result.rows) : result.rows[n].step = steps[n]
        /\ \A n \in 1..(Len(result.rows) - 1) :
               /\ result.rows[n].sessions_reached >= result.rows[n + 1].sessions_reached
               /\ result.rows[n].unique_users_reached
                      >= result.rows[n + 1].unique_users_reached

\* two sessions of two users reach the first step and one of them goes on
\* to the second
C13_Witness ==
    /\ FunnelReturned
    /\ cols = AllCols
    /\ Len(result.rows) = 2
    /\ result.rows[1].sessions_reached = 2
    /\ result.rows[1].unique_users_reached = 2
    /\ result.rows[2].sessions_reached = 1
    /\ result.rows[2].unique_users_reached = 1

\* C14 -- on every row of the daily conversion table the count of the
\* first step is at least 1 and no step has a larger count, so cr_full is a
\* number between 0 and 1; the rows have distinct cohort dates and the
\* first-step count of a row is the number of users anchored to its date,
\* so each cohorted user is in exactly one first-step count.  (Counts of
\* the steps in between may increase along the Step List: C14_Witness.)
C14_FirstStepDominates ==
    ConversionReturned =>
        /\ \A n \in 1..Len(result.rows) :
               LET first == result.rows[n].count[steps[1]]
               IN  /\ first >= 1
                   /\ \A s \in Range(steps) : result.rows[n].count[s] <= first
                   /\ result.rows[n].cr_full.float = "number"
                   /\ result.rows[n].cr_full.den = first
                   /\ result.rows[n].cr_full.num <= result.rows[n].cr_full.den
                   /\ first = Cardinality({u \in Cohorted :
                                  CohortDateOf(u) = result.rows[n].cohort_date})
        /\ \A n \in 1..Len(result.rows), o \in 1..Len(result.rows) :
               n # o => result.rows[n].cohort_date # result.rows[o].cohort_date
        /\ \A u \in Cohorted :
               \E n \in 1..Len(result.rows) : result.rows[n].cohort_date = CohortDateOf(u)

\* two cohort dates, and a row whose third step has a larger count than
\* its second step
C14_Witness ==
    /\ ConversionReturned
    /\ cols = AllCols
    /\ Len(result.rows) = 2
    /\ \E n \in 1..Len(result.rows) :
           result.rows[n].count[steps[3]] > result.rows[n].count[steps[2]]

====
